---- MODULE Spec2Model ----
(***************************************************************************)
(* Resume-Reviewer frontend: the bounded-concurrency orchestration.        *)
(*                                                                         *)
(*   frontend/lib/concurrency.ts    Semaphore, parallelLimit,              *)
(*                                  ConcurrencyConfig,                     *)
(*                                  shouldUseConservativeMode              *)
(*   frontend/components/FileUpload.tsx   handleSubmit                     *)
(*                                                                         *)
(* Five specifications share the variables:                                *)
(*   SemSpec      one Semaphore used by independent callers of execute()   *)
(*   PLSpec       one parallelLimit(items, limit, fn) call, fn opaque      *)
(*   ProfileSpec  the concurrency profile derived from the host's hints    *)
(*   Spec         one FileUpload component: handleSubmit and what it       *)
(*                starts                                                   *)
(*   TwiceSpec    the same form submitted twice, the backends answering    *)
(*                every call the same way both times                       *)
(* Indices are 1-based: item i here is index i-1 of the source.            *)
(*                                                                         *)
(* SemSpec and PLSpec interleave every step freely.  Spec and TwiceSpec    *)
(* follow the browser's event loop: a network response (a task) is         *)
(* delivered only when no promise reaction (a microtask) is ready; the     *)
(* continuations of acquire() run in the order in which acquire()          *)
(* resolved, other reactions that are ready together in any order.         *)
(***************************************************************************)
EXTENDS Integers, Sequences, FiniteSets, TLC

VARIABLES
    \* ---- concurrency.ts ----
    sem,            \* the Semaphore: [permits, tasks]; tasks holds the waiting callers
    limit,          \* the argument the Semaphore was constructed with
    items,          \* parallelLimit's items
    pc,             \* pc[i]: where call i of Semaphore.execute() stands
    ret,            \* ret[i]: what fn settled with for call i
    arrivals,       \* history: callers that had to wait, in the order they called acquire()
    grants,         \* history: waiters in the order release() resolved them
    settleOrder,    \* history: calls of execute() in the order their promise settled
    allState,       \* the promise returned by Promise.all(promises)
    \* ---- FileUpload.tsx ----
    files,          \* useState files
    jobDescription, \* useState jobDescription
    jobTitle,       \* useState jobTitle
    ollamaConnected,\* useState ollamaConnected
    uploading,      \* useState uploading
    error,          \* useState error
    processingStep, \* useState processingStep
    currentFileIndex, \* useState currentFileIndex
    totalFiles,     \* useState totalFiles
    conservativeMode, \* const conservativeMode of the current run
    call,           \* call[i][op]: the external call op of item i's pipeline
    rankCall,       \* the api.rankProjects call of the run
    failureMode,    \* environment: how the backends fail during this run, when they do
    navigator,      \* environment: the host's navigator and its capability hints
    rankFiles,      \* the files argument of the api.rankProjects call of the run
    firstRun,       \* TwiceSpec: what the first of two runs ended with
    invoked,        \* history: how often each external operation was invoked in the run
    pair,           \* PairSpec: two parallelLimit calls in progress at once
    dragActive,     \* FileUpload: a drag is over the drop zone
    page,           \* Home: results, selectedResultIndex, projectRanking, showProjects,
                    \* uploadedFiles, jobTitle
    hs,             \* where handleSubmit stands
    uploads         \* the calls made to onUploadSuccess, in order

semVars == <<sem, limit, items, pc, ret, arrivals, grants, settleOrder, allState>>
uiVars  == <<files, jobDescription, jobTitle, ollamaConnected, uploading, error, processingStep,
             currentFileIndex, totalFiles, conservativeMode, call, rankCall, failureMode,
             navigator, rankFiles, firstRun, invoked, pair, dragActive, page, hs, uploads>>
vars    == <<semVars, uiVars>>

(***************************************************************************)
(* Bounds of the model                                                     *)
(***************************************************************************)
MaxCap == 3         \* SemSpec: capacities 0..MaxCap
NCallers == 4       \* SemSpec: callers of execute()
MaxLimit == 3       \* PLSpec: limits 1..MaxLimit
MaxItems == 5       \* PLSpec: 0..MaxItems items
MaxBatch == 3       \* Spec: batches of 0..MaxBatch files
MaxHint == 8        \* ProfileSpec: capability hints 1..MaxHint, or not exposed
MaxTwice == 2       \* TwiceSpec: batches of 1..MaxTwice files
MaxPairLimit == 2   \* PairSpec: limits 1..MaxPairLimit for either call
MaxPairItems == 2   \* PairSpec: 1..MaxPairItems items for either call
MaxLive == 3        \* LiveSpec: batches of 1..MaxLive files
MaxDrop == 6        \* FormSpec: drops and selections of 0..MaxDrop files
MaxUploads == 2     \* PageSpec: at most MaxUploads successful runs
MaxPageFiles == 3   \* PageSpec: runs of 1..MaxPageFiles files
MaxStray == 2       \* MisuseSpec: at most MaxStray permits returned without an acquire

(***************************************************************************)
(* Program constants                                                       *)
(***************************************************************************)
MAX_RESUME_PROCESSING == 2
MAX_LLM_CALLS == 3
LowMemoryGB == 4
LowCores == 4
MaxFilesAtOnce == 5         \* FileUpload.tsx: pdfFiles.length > 5

Range(s) == {s[k] : k \in 1..Len(s)}

(***************************************************************************)
(* class Semaphore                                                         *)
(***************************************************************************)
\* A constructor that keeps one permit back.
SemNewOneLess(p) == [permits |-> p - 1, tasks |-> <<>>]

\* constructor(permits)
SemNew(p) == [permits |-> p, tasks |-> <<>>]

\* An acquire() that takes a permit without looking at the count.
AcquireUnchecked(s, who) == [s EXCEPT !.permits = @ - 1]

\* An acquire() that queues the caller when one permit is left.
AcquireKeepsLastPermit(s, who) ==
    IF s.permits > 1
    THEN [s EXCEPT !.permits = @ - 1]
    ELSE [s EXCEPT !.tasks = Append(@, who)]

\* An acquire() that counts the caller down also when it queues it.
AcquireAlwaysDecrements(s, who) ==
    IF s.permits > 0
    THEN [s EXCEPT !.permits = @ - 1]
    ELSE [permits |-> s.permits - 1, tasks |-> Append(s.tasks, who)]

\* acquire() called by `who`: a permit is taken when one is available,
\* otherwise the caller's resolve callback is pushed on tasks.
Acquire(s, who) ==
    IF s.permits > 0
    THEN [s EXCEPT !.permits = @ - 1]
    ELSE [s EXCEPT !.tasks = Append(@, who)]

\* A release() that forgets to take the permit back when it hands it over.
ReleaseKeepsPermit(s) ==
    IF s.tasks # <<>>
    THEN [sem |-> [permits |-> s.permits + 1, tasks |-> Tail(s.tasks)],
          woken |-> <<Head(s.tasks)>>]
    ELSE [sem |-> [s EXCEPT !.permits = @ + 1], woken |-> <<>>]

\* A release() that takes the newest waiter (tasks.pop()) instead of the oldest.
ReleaseNewest(s) ==
    IF s.tasks # <<>>
    THEN [sem |-> [permits |-> s.permits,
                   tasks |-> SubSeq(s.tasks, 1, Len(s.tasks) - 1)],
          woken |-> <<s.tasks[Len(s.tasks)]>>]
    ELSE [sem |-> [s EXCEPT !.permits = @ + 1], woken |-> <<>>]

\* A release() that only returns the permit to the count and leaves the
\* waiters queued.
ReleaseToCountOnly(s) == [sem |-> [s EXCEPT !.permits = @ + 1], woken |-> <<>>]

\* release(): permits++, tasks.shift(); a waiter found takes the permit
\* (permits--) and is resolved.  woken: the callers whose acquire() resolved.
Release(s) ==
    LET s1 == [s EXCEPT !.permits = @ + 1]
    IN  IF s1.tasks # <<>>
        THEN [sem |-> [permits |-> s1.permits - 1, tasks |-> Tail(s1.tasks)],
              woken |-> <<Head(s1.tasks)>>]
        ELSE [sem |-> s1, woken |-> <<>>]

\* An execute() that releases after fn only when fn returned (no finally).
ExecuteExitNoFinally(s, threw) ==
    IF threw THEN [sem |-> s, woken |-> <<>>] ELSE Release(s)

\* execute(): try { return await fn() } finally { this.release() }
ExecuteExit(s, threw) == Release(s)

\* Positions of one execute() call.
\*   idle       execute() not called
\*   waiting    suspended in acquire(), resolve callback queued in tasks
\*   granted    acquire() resolved, the continuation has not run yet
\*   running    fn() was called and has not settled
\*   returned / threw   fn() settled, the finally block has not run yet
\*   fulfilled / rejected   the promise of execute() settled
Holding == {"granted", "running", "returned", "threw"}
Settled == {"fulfilled", "rejected"}

NoRet == [kind |-> "none"]
NoRun == [kind |-> "none"]
NoInvocations == [calls |-> <<>>, rankProjects |-> 0]
NoPair == [kind |-> "none"]
NoPage == [kind |-> "none"]
Value(v) == [kind |-> "value", value |-> v]
Failure(e) == [kind |-> "error", error |-> e]

(***************************************************************************)
(* Promise.all(promises) as parallelLimit uses it                          *)
(***************************************************************************)
NoPromiseAll == [status |-> "none", values |-> <<>>, reason |-> NoRet]

\* Promise.all over n promises: an empty list fulfils at once.
PromiseAllNew(n) ==
    [status |-> IF n = 0 THEN "fulfilled" ELSE "pending",
     values |-> [k \in 1..n |-> NoRet],
     reason |-> NoRet]

\* A Promise.all that collects values in the order the promises fulfil.
PromiseAllSettleByCompletion(a, i, r) ==
    IF r.kind = "error"
    THEN IF a.status = "pending" THEN [a EXCEPT !.status = "rejected", !.reason = r] ELSE a
    ELSE LET pos == 1 + Cardinality({k \in DOMAIN a.values : a.values[k].kind = "value"})
             vals == [a.values EXCEPT ![pos] = r]
         IN  [a EXCEPT !.values = vals,
                       !.status = IF a.status = "pending"
                                     /\ \A k \in DOMAIN vals : vals[k].kind = "value"
                                  THEN "fulfilled" ELSE a.status]

\* Promise i of the list settles with r: the first rejection rejects the
\* whole; a value is stored at index i, and the last one fulfils the whole.
PromiseAllSettle(a, i, r) ==
    IF r.kind = "error"
    THEN IF a.status = "pending" THEN [a EXCEPT !.status = "rejected", !.reason = r] ELSE a
    ELSE LET vals == [a.values EXCEPT ![i] = r]
         IN  [a EXCEPT !.values = vals,
                       !.status = IF a.status = "pending"
                                     /\ \A k \in DOMAIN vals : vals[k].kind = "value"
                                  THEN "fulfilled" ELSE a.status]

\* the values a fulfilled Promise.all resolves with
PromiseAllValues(a) == [k \in DOMAIN a.values |-> a.values[k].value]

\* execute() up to `await this.acquire()`
ExecuteCallCore(i) ==
    /\ pc[i] = "idle"
    /\ LET s == Acquire(sem, i)
           queued == i \in Range(s.tasks)
       IN  /\ sem' = s
           /\ pc' = [pc EXCEPT ![i] = IF queued THEN "waiting" ELSE "granted"]
           /\ arrivals' = IF queued THEN Append(arrivals, i) ELSE arrivals

\* the finally block of execute() and the settling of its promise
ExecuteFinallyCore(i) ==
    /\ pc[i] \in {"returned", "threw"}
    /\ LET r == ExecuteExit(sem, pc[i] = "threw")
           w == Range(r.woken)
       IN  /\ sem' = r.sem
           /\ pc' = [j \in DOMAIN pc |->
                        IF j = i THEN (IF pc[i] = "threw" THEN "rejected" ELSE "fulfilled")
                        ELSE IF j \in w THEN "granted"
                        ELSE pc[j]]
           /\ grants' = grants \o r.woken

(***************************************************************************)
(* shouldUseConservativeMode and ConcurrencyConfig                         *)
(***************************************************************************)
\* A capability hint is <<>> when the host does not expose it, else <<n>>.
\* A host that reports a hint reports at least 1 core and a positive
\* memory size; sizes below 1 GB compare with the threshold as 1 does.
Hints == {<<>>} \cup {<<n>> : n \in 1..MaxHint}
Truthy(h) == h # <<>> /\ h[1] # 0

\* the global navigator: absent (typeof navigator === 'undefined'), or
\* present with its two hints
NoNavigator == [present |-> FALSE, deviceMemory |-> <<>>, hardwareConcurrency |-> <<>>]
Navigators ==
    {NoNavigator} \cup
    {[present |-> TRUE, deviceMemory |-> m, hardwareConcurrency |-> c] : m, c \in Hints}

\* A shouldUseConservativeMode that compares with <= instead of <.
ShouldUseConservativeModeInclusive(hasNavigator, deviceMemory, cores) ==
    IF hasNavigator
    THEN IF Truthy(deviceMemory) /\ deviceMemory[1] <= LowMemoryGB THEN TRUE
         ELSE IF Truthy(cores) /\ cores[1] <= LowCores THEN TRUE
         ELSE FALSE
    ELSE FALSE

\* A shouldUseConservativeMode that falls back to conservative mode when
\* the host exposes no memory hint.
ShouldUseConservativeModeUnknownIsLow(hasNavigator, deviceMemory, cores) ==
    IF hasNavigator
    THEN IF ~Truthy(deviceMemory) \/ deviceMemory[1] < LowMemoryGB THEN TRUE
         ELSE IF Truthy(cores) /\ cores[1] < LowCores THEN TRUE
         ELSE FALSE
    ELSE FALSE

ShouldUseConservativeMode(hasNavigator, deviceMemory, cores) ==
    IF hasNavigator
    THEN IF Truthy(deviceMemory) /\ deviceMemory[1] < LowMemoryGB THEN TRUE
         ELSE IF Truthy(cores) /\ cores[1] < LowCores THEN TRUE
         ELSE FALSE
    ELSE FALSE

\* A profile that uses the regular ceiling also in conservative mode.
MaxConcurrentResumesIgnoresMode(conservative) == MAX_RESUME_PROCESSING

\* const maxConcurrentResumes = conservativeMode ? 1 : MAX_RESUME_PROCESSING
MaxConcurrentResumes(conservative) ==
    IF conservative THEN 1 ELSE MAX_RESUME_PROCESSING

(***************************************************************************)
(* SemSpec: NCallers independent callers of execute(fn) on one Semaphore   *)
(***************************************************************************)
UiIdle ==
    /\ files = <<>>
    /\ jobDescription = ""
    /\ jobTitle = ""
    /\ ollamaConnected = FALSE
    /\ uploading = FALSE
    /\ error = <<>>
    /\ processingStep = <<>>
    /\ currentFileIndex = 0
    /\ totalFiles = 0
    /\ conservativeMode = FALSE
    /\ call = <<>>
    /\ rankCall = "none"
    /\ failureMode = "unavailable"
    /\ navigator = NoNavigator
    /\ rankFiles = <<>>
    /\ firstRun = NoRun
    /\ invoked = NoInvocations
    /\ dragActive = FALSE
    /\ page = NoPage
    /\ hs = "idle"
    /\ uploads = <<>>

\* The constructor stores whatever number it is given; capacity 0 stands
\* for the capacities below 1.
SemInit ==
    /\ limit \in 0..MaxCap
    /\ sem = SemNew(limit)
    /\ items = <<>>
    /\ pc = [i \in 1..NCallers |-> "idle"]
    /\ ret = [i \in 1..NCallers |-> NoRet]
    /\ arrivals = <<>>
    /\ grants = <<>>
    /\ settleOrder = <<>>
    /\ allState = NoPromiseAll
    /\ pair = NoPair
    /\ UiIdle

\* a caller calls execute(fn)
ExecuteCall(i) ==
    /\ ExecuteCallCore(i)
    /\ UNCHANGED <<limit, items, ret, grants, settleOrder, allState, uiVars>>

\* the continuation after `await this.acquire()`: fn() is called
ExecuteResume(i) ==
    /\ pc[i] = "granted"
    /\ pc' = [pc EXCEPT ![i] = "running"]
    /\ UNCHANGED <<sem, limit, items, ret, arrivals, grants, settleOrder, allState, uiVars>>

\* the opaque fn of call i settles
FnSettle(i, ok) ==
    /\ pc[i] = "running"
    /\ pc' = [pc EXCEPT ![i] = IF ok THEN "returned" ELSE "threw"]
    /\ ret' = [ret EXCEPT ![i] = IF ok THEN Value(<<"fn", i>>) ELSE Failure(<<"fn", i>>)]
    /\ UNCHANGED <<sem, limit, items, arrivals, grants, settleOrder, allState, uiVars>>

ExecuteFinally(i) ==
    /\ ExecuteFinallyCore(i)
    /\ settleOrder' = Append(settleOrder, i)
    /\ UNCHANGED <<limit, items, ret, arrivals, allState, uiVars>>

SemNext ==
    \/ \E i \in DOMAIN pc : ExecuteCall(i)
    \/ \E i \in DOMAIN pc : ExecuteResume(i)
    \/ \E i \in DOMAIN pc, ok \in BOOLEAN : FnSettle(i, ok)
    \/ \E i \in DOMAIN pc : ExecuteFinally(i)

SemSpec == SemInit /\ [][SemNext]_vars

Holders == {i \in DOMAIN pc : pc[i] \in Holding}
InFlight == {i \in DOMAIN pc : pc[i] = "running"}

IsPrefix(s, t) == Len(s) <= Len(t) /\ \A k \in 1..Len(s) : s[k] = t[k]

\* C1: at most `capacity` callers hold a permit at any time, and a caller
\* that had to wait is granted a permit only in a step in which another
\* caller, a holder, runs release().
C1_AtMostCapacityHolders ==
    /\ [](Cardinality(Holders) <= limit)
    /\ [][\A i \in DOMAIN pc :
            (pc[i] = "waiting" /\ pc'[i] = "granted") =>
                \E j \in DOMAIN pc \ {i} :
                    /\ pc[j] \in {"returned", "threw"}
                    /\ pc'[j] \in Settled]_vars

\* C1 witness: every permit is held, callers wait, and a waiter has already
\* been granted a permit by a release().
C1_Witness ==
    /\ Cardinality(Holders) = limit
    /\ limit < NCallers
    /\ sem.tasks # <<>>
    /\ grants # <<>>

\* C6: waiters are granted permits in the order in which they called
\* acquire(): the sequence of granted waiters is a prefix of the sequence of
\* arrivals, and the queue is the rest of it.
C6_FifoGrants ==
    /\ IsPrefix(grants, arrivals)
    /\ arrivals = grants \o sem.tasks

\* C6 witness: two waiters were granted, the first of them being the caller
\* with the higher number, while a third caller still waits.
C6_Witness ==
    /\ Len(grants) >= 2
    /\ grants[1] > grants[2]
    /\ sem.tasks # <<>>

\* C7: once every execute() call issued has settled, whether its fn
\* returned or threw, all permits are back and nobody is queued.
C7_NoPermitLeak ==
    (\A i \in DOMAIN pc : pc[i] \in Settled \cup {"idle"}) =>
        (sem.permits = limit /\ sem.tasks = <<>>)

\* C7 witness: all callers called execute() and all calls settled, some by
\* a throwing fn, and some callers had to wait.
C7_Witness ==
    /\ \A i \in DOMAIN pc : pc[i] \in Settled
    /\ \E i \in DOMAIN pc : pc[i] = "rejected"
    /\ \E i \in DOMAIN pc : pc[i] = "fulfilled"
    /\ arrivals # <<>>

\* C23: a release() made while callers wait hands the freed permit to the
\* longest-waiting caller without passing it through the count (permits is
\* the same before and after, the head of the queue is granted), and no
\* caller that calls acquire() while somebody is queued, or while all
\* permits are held by callers granted one (resumed or not), obtains a
\* permit: it is queued behind.
C23_NoQueueJumping ==
    /\ [](sem.tasks # <<>> => sem.permits = 0)
    /\ [][\A j \in DOMAIN pc :
            (pc[j] \in {"returned", "threw"} /\ pc'[j] \in Settled /\ sem.tasks # <<>>) =>
                /\ pc'[Head(sem.tasks)] = "granted"
                /\ sem'.tasks = Tail(sem.tasks)
                /\ sem'.permits = sem.permits]_vars
    /\ [][\A i \in DOMAIN pc :
            (pc[i] = "idle" /\ pc'[i] = "granted") =>
                /\ sem.tasks = <<>>
                /\ Cardinality(Holders) < limit]_vars

\* C23 witness: with one permit, caller 1 released to waiter 2, which has not
\* resumed yet, and caller 3 is queued behind although it is not a holder
C23_Witness ==
    /\ limit = 1
    /\ pc[1] \in Settled
    /\ pc[2] = "granted"
    /\ grants = <<2>>
    /\ pc[3] = "waiting"
    /\ sem.tasks = <<3>>
    /\ sem.permits = 0

\* C24: when release() is only run by execute(), that is by a caller that
\* was granted a permit and has not released it, a Semaphore of capacity c
\* always has 0 <= permits <= c and permits + (number of holders) = c.
C24_PermitsAccountedFor ==
    /\ 0 <= sem.permits
    /\ sem.permits <= limit
    /\ sem.permits + Cardinality(Holders) = limit

\* C24 witness: of two permits one is free and one held, after callers
\* waited, were granted and released
C24_Witness ==
    /\ limit = 2
    /\ sem.permits = 1
    /\ Cardinality(Holders) = 1
    /\ grants # <<>>
    /\ \E i \in DOMAIN pc : pc[i] \in Settled

\* C36: whenever callers are queued the Semaphore has no permit available:
\* every caller suspended in acquire() is in tasks, and permits is 0 then.
C36_WaitersImplyNoPermit ==
    /\ sem.tasks # <<>> => sem.permits = 0
    /\ \A i \in DOMAIN pc :
          pc[i] = "waiting" => (sem.permits = 0 /\ i \in Range(sem.tasks))

\* C36 witness: the one permit of a Semaphore is held by a caller that had
\* waited for it, and two more callers are queued
C36_Witness ==
    /\ limit = 1
    /\ sem.permits = 0
    /\ Len(sem.tasks) = 2
    /\ Len(grants) = 1
    /\ Cardinality(Holders) = 1

\* C17: a Semaphore constructed with a capacity below 1 is rejected at
\* construction: no gate exists on which a caller of acquire() could wait.
C17_CapacityBelowOneRejected ==
    limit < 1 => \A i \in DOMAIN pc : pc[i] # "waiting"

(***************************************************************************)
(* MisuseSpec: SemSpec plus code that calls the public release() without   *)
(* holding a permit                                                        *)
(***************************************************************************)
MisuseInit ==
    /\ SemInit
    /\ limit >= 1

\* release() called while no permit is outstanding
StrayRelease ==
    /\ Holders = {}
    /\ sem.permits < limit + MaxStray
    /\ LET r == Release(sem)
       IN  /\ sem' = r.sem
           /\ pc' = [j \in DOMAIN pc |-> IF j \in Range(r.woken) THEN "granted" ELSE pc[j]]
           /\ grants' = grants \o r.woken
    /\ UNCHANGED <<limit, items, ret, arrivals, settleOrder, allState, uiVars>>

MisuseNext ==
    \/ SemNext
    \/ StrayRelease

MisuseSpec == MisuseInit /\ [][MisuseNext]_vars

\* C25: releasing more often than acquired is guarded against. A release()
\* made when no permit is outstanding does not raise permits above the
\* capacity, and never more than capacity callers hold a permit afterwards.
C25_OverReleaseGuarded ==
    /\ sem.permits <= limit
    /\ Cardinality(Holders) <= limit

(***************************************************************************)
(* PLSpec: one call of parallelLimit(items, limit, fn) with an opaque fn   *)
(***************************************************************************)
ItemNames == <<"a", "b", "c", "d", "e", "f">>

\* what fn(item, index) returns / throws
FnValue(item, index) == <<"value", item, index>>
FnError(item, index) == <<"error", item, index>>

\* items.map(...): execute() is called for the items in index order, each
\* running up to its `await this.acquire()`.
RECURSIVE AcquireAll(_, _, _)
AcquireAll(s, k, n) == IF k > n THEN s ELSE AcquireAll(Acquire(s, k), k + 1, n)

NoSem == [permits |-> 0, tasks |-> <<>>]

PLInit ==
    /\ limit \in 1..MaxLimit
    /\ \E n \in 0..MaxItems : items = SubSeq(ItemNames, 1, n)
    /\ sem = NoSem
    /\ pc = [i \in 1..Len(items) |-> "idle"]
    /\ ret = [i \in 1..Len(items) |-> NoRet]
    /\ arrivals = <<>>
    /\ grants = <<>>
    /\ settleOrder = <<>>
    /\ allState = NoPromiseAll
    /\ pair = NoPair
    /\ UiIdle

\* the synchronous part of parallelLimit
ParallelLimitCore(its, lim) ==
    LET s == AcquireAll(SemNew(lim), 1, Len(its))
    IN  /\ sem' = s
        /\ pc' = [i \in 1..Len(its) |->
                     IF i \in Range(s.tasks) THEN "waiting" ELSE "granted"]
        /\ arrivals' = s.tasks
        /\ grants' = <<>>
        /\ settleOrder' = <<>>
        /\ ret' = [i \in 1..Len(its) |-> NoRet]
        /\ allState' = PromiseAllNew(Len(its))

ParallelLimit ==
    /\ allState.status = "none"
    /\ ParallelLimitCore(items, limit)
    /\ UNCHANGED <<limit, items, uiVars>>

\* the continuations of the acquire() calls that resolved at once were
\* queued, in item order, before fn was called for the first time: they all
\* run, each calling its fn, before the reaction to any fn's promise does
InitialBatchCalled == \A j \in DOMAIN pc : pc[j] = "granted" => j \in Range(grants)

\* fn of item i settles
PLFnSettle(i, ok) ==
    /\ pc[i] = "running"
    /\ InitialBatchCalled
    /\ pc' = [pc EXCEPT ![i] = IF ok THEN "returned" ELSE "threw"]
    /\ ret' = [ret EXCEPT ![i] = IF ok THEN Value(FnValue(items[i], i))
                                       ELSE Failure(FnError(items[i], i))]
    /\ UNCHANGED <<sem, limit, items, arrivals, grants, settleOrder, allState, uiVars>>

\* the finally block of execute(), and Promise.all seeing the promise settle
PLExecuteFinally(i) ==
    /\ ExecuteFinallyCore(i)
    /\ settleOrder' = Append(settleOrder, i)
    /\ allState' = PromiseAllSettle(allState, i, ret[i])
    /\ UNCHANGED <<limit, items, ret, arrivals, uiVars>>

PLNext ==
    \/ ParallelLimit
    \/ \E i \in DOMAIN pc : ExecuteResume(i)
    \/ \E i \in DOMAIN pc, ok \in BOOLEAN : PLFnSettle(i, ok)
    \/ \E i \in DOMAIN pc : PLExecuteFinally(i)

PLSpec == PLInit /\ [][PLNext]_vars

\* C5: when every item's fn succeeded, parallelLimit's promise is fulfilled
\* with exactly one entry per item, entry i being what fn(items[i], i)
\* returned, whatever the order in which the invocations completed.
C5_ResultsInInputOrder ==
    (allState.status # "none" /\ \A i \in DOMAIN pc : pc[i] = "fulfilled") =>
        /\ allState.status = "fulfilled"
        /\ Len(PromiseAllValues(allState)) = Len(items)
        /\ \A i \in 1..Len(items) :
              PromiseAllValues(allState)[i] = FnValue(items[i], i)

\* C5 witness: three or more items all succeeded and a later item completed
\* before an earlier one.
C5_Witness ==
    /\ allState.status = "fulfilled"
    /\ Len(items) >= 3
    /\ \E k \in 1..(Len(settleOrder) - 1) : settleOrder[k] > settleOrder[k + 1]

\* C8: when an item's fn throws, the finally block of its execute() frees
\* the permit (the oldest queued item is granted it, or the count goes up),
\* no other invocation is stopped: an item is queued only while some
\* admitted invocation still holds a permit, and once parallelLimit has
\* rejected, every item that settled did so by its own fn settling.
C8_ThrowFreesPermit ==
    /\ [](sem.tasks # <<>> => Holders # {})
    /\ [](\A i \in DOMAIN pc : pc[i] \in Settled => ret[i] # NoRet)
    /\ [][\A i \in DOMAIN pc :
            (pc[i] = "threw" /\ pc'[i] = "rejected") =>
                IF sem.tasks # <<>>
                THEN pc'[Head(sem.tasks)] = "granted" /\ sem'.tasks = Tail(sem.tasks)
                ELSE sem'.permits = sem.permits + 1]_vars

\* C8 witness: an item threw and parallelLimit rejected, after which a
\* queued item was admitted and every item ran to its own completion.
C8_Witness ==
    /\ allState.status = "rejected"
    /\ grants # <<>>
    /\ \E k \in 1..Len(settleOrder) :
          /\ pc[settleOrder[k]] = "rejected"
          /\ \E m \in (k + 1)..Len(settleOrder) : settleOrder[m] \in Range(grants)
    /\ \A i \in DOMAIN pc : pc[i] \in Settled

\* C27: a limit of at least the number of items is harmless. No invocation
\* is ever queued, every fn is called before any of them has settled (all N
\* are in flight together), the permits above N stay unused, and the list
\* returned is the list of fn's results in input order whatever the limit,
\* so the same as with limit = N; with no items the call is fulfilled with
\* the empty list and no fn is called.
C27_LargeLimitHarmless ==
    (limit >= Len(items) /\ allState.status # "none") =>
        /\ arrivals = <<>>
        /\ sem.tasks = <<>>
        /\ \A i \in DOMAIN pc : pc[i] \notin {"idle", "waiting"}
        /\ (\E i \in DOMAIN pc : pc[i] \notin {"granted", "running"}) =>
               \A j \in DOMAIN pc : pc[j] # "granted"
        /\ sem.permits >= limit - Len(items)
        /\ allState.status = "fulfilled" =>
               PromiseAllValues(allState) = [i \in 1..Len(items) |-> FnValue(items[i], i)]
        /\ Len(items) = 0 =>
               /\ allState.status = "fulfilled"
               /\ PromiseAllValues(allState) = <<>>
               /\ pc = <<>>

\* C27 witness: two items under limit 3, both in flight, the third permit
\* unused
C27_Witness ==
    /\ limit = 3
    /\ Len(items) = 2
    /\ \A i \in DOMAIN pc : pc[i] = "running"
    /\ sem.permits = 1

(***************************************************************************)
(* PairSpec: two calls of parallelLimit in progress at the same time, each *)
(* with its own items, limit and opaque fn.  pair holds the Semaphore, the *)
(* positions of the execute() calls and the Promise.all of either call;    *)
(* a caller is named <<k, i>>, item i of call k.                           *)
(***************************************************************************)
PairCalls == {1, 2}

\* A parallelLimit whose callbacks all run on one module-level Semaphore.
SemaphoreOfShared(k) == 1

\* the Semaphore the execute() calls of call k run on: the one constructed
\* in that call (`const semaphore = new Semaphore(limit)`)
SemaphoreOf(k) == k

\* items.map(...) of call k: execute() for items 1..n in index order
RECURSIVE PairAcquireAll(_, _, _, _)
PairAcquireAll(s, k, i, n) ==
    IF i > n THEN s ELSE PairAcquireAll(Acquire(s, <<k, i>>), k, i + 1, n)

PairInit ==
    /\ \E l1, l2 \in 1..MaxPairLimit, n1, n2 \in 1..MaxPairItems :
          pair = [kind    |-> "pair",
                  limits  |-> <<l1, l2>>,
                  sizes   |-> <<n1, n2>>,
                  started |-> {},
                  gates   |-> <<NoSem, NoSem>>,
                  pcs     |-> <<[i \in 1..n1 |-> "idle"], [i \in 1..n2 |-> "idle"]>>,
                  rets    |-> <<[i \in 1..n1 |-> NoRet], [i \in 1..n2 |-> NoRet]>>,
                  alls    |-> <<NoPromiseAll, NoPromiseAll>>]
    /\ limit = 0
    /\ sem = NoSem
    /\ items = <<>>
    /\ pc = <<>>
    /\ ret = <<>>
    /\ arrivals = <<>>
    /\ grants = <<>>
    /\ settleOrder = <<>>
    /\ allState = NoPromiseAll
    /\ UiIdle

PairUnchanged == UNCHANGED <<semVars, files, jobDescription, jobTitle, ollamaConnected,
                             uploading, error, processingStep, currentFileIndex, totalFiles,
                             conservativeMode, call, rankCall, failureMode, navigator,
                             rankFiles, firstRun, invoked, dragActive, page, hs, uploads>>

\* the synchronous part of call k of parallelLimit
PairParallelLimit(k) ==
    /\ k \notin pair.started
    /\ LET n == pair.sizes[k]
           g == SemaphoreOf(k)
           fresh == [pair.gates EXCEPT ![k] = SemNew(pair.limits[k])]
           s == PairAcquireAll(fresh[g], k, 1, n)
       IN  pair' = [pair EXCEPT
                      !.started = @ \cup {k},
                      !.gates = [fresh EXCEPT ![g] = s],
                      !.pcs[k] = [i \in 1..n |->
                                    IF <<k, i>> \in Range(s.tasks) THEN "waiting" ELSE "granted"],
                      !.alls[k] = PromiseAllNew(n)]
    /\ PairUnchanged

\* the continuation after `await this.acquire()` of item i of call k
PairExecuteResume(k, i) ==
    /\ pair.pcs[k][i] = "granted"
    /\ pair' = [pair EXCEPT !.pcs[k][i] = "running"]
    /\ PairUnchanged

\* fn of item i of call k settles
PairFnSettle(k, i, ok) ==
    /\ pair.pcs[k][i] = "running"
    /\ pair' = [pair EXCEPT
                  !.pcs[k][i] = IF ok THEN "returned" ELSE "threw",
                  !.rets[k][i] = IF ok THEN Value(FnValue(ItemNames[i], i))
                                       ELSE Failure(FnError(ItemNames[i], i))]
    /\ PairUnchanged

\* the finally block of execute() of item i of call k, and the Promise.all
\* of call k seeing the promise settle
PairExecuteFinally(k, i) ==
    /\ pair.pcs[k][i] \in {"returned", "threw"}
    /\ LET g == SemaphoreOf(k)
           r == ExecuteExit(pair.gates[g], pair.pcs[k][i] = "threw")
           w == Range(r.woken)
       IN  pair' = [pair EXCEPT
                      !.gates[g] = r.sem,
                      !.pcs = [kk \in PairCalls |-> [j \in DOMAIN pair.pcs[kk] |->
                                 IF kk = k /\ j = i
                                 THEN (IF pair.pcs[k][i] = "threw" THEN "rejected" ELSE "fulfilled")
                                 ELSE IF <<kk, j>> \in w THEN "granted"
                                 ELSE pair.pcs[kk][j]]],
                      !.alls[k] = PromiseAllSettle(@, i, pair.rets[k][i])]
    /\ PairUnchanged

PairNext ==
    \/ \E k \in PairCalls : PairParallelLimit(k)
    \/ \E k \in PairCalls : \E i \in DOMAIN pair.pcs[k] : PairExecuteResume(k, i)
    \/ \E k \in PairCalls : \E i \in DOMAIN pair.pcs[k], ok \in BOOLEAN : PairFnSettle(k, i, ok)
    \/ \E k \in PairCalls : \E i \in DOMAIN pair.pcs[k] : PairExecuteFinally(k, i)

PairSpec == PairInit /\ [][PairNext]_vars

PairHolders(k) == {i \in DOMAIN pair.pcs[k] : pair.pcs[k][i] \in Holding}
PairInFlight(k) == {i \in DOMAIN pair.pcs[k] : pair.pcs[k][i] = "running"}
OtherCall(k) == 3 - k

\* C26: each parallelLimit call owns its gate. With two calls in progress
\* the in-flight count of either is bounded by its own limit, an item waits
\* only while all permits of its own call are held by items of its own call,
\* and a step of one call (an admission, a release) changes neither the
\* Semaphore nor the positions of the other.
C26_OwnGatePerCall ==
    /\ [](\A k \in PairCalls :
            /\ Cardinality(PairInFlight(k)) <= pair.limits[k]
            /\ Cardinality(PairHolders(k)) <= pair.limits[k]
            /\ \A i \in DOMAIN pair.pcs[k] :
                  pair.pcs[k][i] = "waiting" =>
                      Cardinality(PairHolders(k)) = pair.limits[k])
    /\ [][\A k \in PairCalls :
            pair'.pcs[k] # pair.pcs[k] =>
                /\ pair'.pcs[OtherCall(k)] = pair.pcs[OtherCall(k)]
                /\ (OtherCall(k) \in pair.started =>
                       pair'.gates[OtherCall(k)] = pair.gates[OtherCall(k)])]_vars

\* C26 witness: both calls are in progress; call 1, with limit 1, has an
\* item in flight and one queued, while call 2, with limit 2, has two items
\* in flight
C26_Witness ==
    /\ pair.limits = <<1, 2>>
    /\ pair.started = PairCalls
    /\ Cardinality(PairInFlight(1)) = 1
    /\ \E i \in DOMAIN pair.pcs[1] : pair.pcs[1][i] = "waiting"
    /\ Cardinality(PairInFlight(2)) = 2

(***************************************************************************)
(* ProfileSpec: the concurrency profile handleSubmit derives, on every     *)
(* host                                                                    *)
(***************************************************************************)
ProfileInit ==
    /\ navigator \in Navigators
    /\ files = <<>>
    /\ jobDescription = ""
    /\ jobTitle = ""
    /\ ollamaConnected = FALSE
    /\ uploading = FALSE
    /\ error = <<>>
    /\ processingStep = <<>>
    /\ currentFileIndex = 0
    /\ totalFiles = 0
    /\ conservativeMode = FALSE
    /\ call = <<>>
    /\ rankCall = "none"
    /\ failureMode = "unavailable"
    /\ rankFiles = <<>>
    /\ firstRun = NoRun
    /\ invoked = NoInvocations
    /\ pair = NoPair
    /\ dragActive = FALSE
    /\ page = NoPage
    /\ hs = "idle"
    /\ uploads = <<>>
    /\ sem = NoSem
    /\ limit = 0
    /\ items = <<>>
    /\ pc = <<>>
    /\ ret = <<>>
    /\ arrivals = <<>>
    /\ grants = <<>>
    /\ settleOrder = <<>>
    /\ allState = NoPromiseAll

\* const conservativeMode = shouldUseConservativeMode();
\* const maxConcurrentResumes = conservativeMode ? 1 : MAX_RESUME_PROCESSING
SelectProfile ==
    /\ hs = "idle"
    /\ LET conservative == ShouldUseConservativeMode(navigator.present,
                                                     navigator.deviceMemory,
                                                     navigator.hardwareConcurrency)
       IN  /\ conservativeMode' = conservative
           /\ limit' = MaxConcurrentResumes(conservative)
    /\ hs' = "selected"
    /\ UNCHANGED <<sem, items, pc, ret, arrivals, grants, settleOrder, allState,
                   files, jobDescription, jobTitle, ollamaConnected, uploading, error,
                   processingStep, currentFileIndex, totalFiles, call, rankCall,
                   failureMode, navigator, rankFiles, firstRun, invoked, pair, dragActive, page, uploads>>

ProfileNext == SelectProfile

ProfileSpec == ProfileInit /\ [][ProfileNext]_vars

\* the host reports the hint and it is below the threshold t
ReportedBelow(h, t) == h # <<>> /\ h[1] < t

\* C15: the profile is conservative, with ceiling 1, exactly when the
\* reported memory hint is below 4 or the reported parallelism hint is below
\* 4; otherwise it is not conservative and the ceiling is 2.  Memory 2 gives
\* conservative with ceiling 1; memory 8 with parallelism 8 gives
\* non-conservative with ceiling 2.
C15_ProfileFromHints ==
    hs = "selected" =>
        /\ conservativeMode = (\/ ReportedBelow(navigator.deviceMemory, 4)
                               \/ ReportedBelow(navigator.hardwareConcurrency, 4))
        /\ limit = (IF conservativeMode THEN 1 ELSE 2)
        /\ navigator.deviceMemory = <<2>> => (conservativeMode /\ limit = 1)
        /\ (navigator.deviceMemory = <<8>> /\ navigator.hardwareConcurrency = <<8>>) =>
              (~conservativeMode /\ limit = 2)

\* C15 witness: a profile made conservative by the parallelism hint alone,
\* the memory hint being high.
C15_Witness ==
    /\ hs = "selected"
    /\ navigator.deviceMemory = <<8>>
    /\ navigator.hardwareConcurrency = <<2>>
    /\ conservativeMode
    /\ limit = 1

\* C16: a hint the host does not expose never makes the profile
\* conservative: with both hints unavailable, or no navigator at all, the
\* profile is not conservative; with exactly one hint unavailable the other
\* hint alone decides.
C16_UnavailableHintIgnored ==
    hs = "selected" =>
        /\ (navigator.deviceMemory = <<>> /\ navigator.hardwareConcurrency = <<>>) =>
              ~conservativeMode
        /\ (navigator.deviceMemory = <<>> /\ navigator.hardwareConcurrency # <<>>) =>
              (conservativeMode = (navigator.hardwareConcurrency[1] < 4))
        /\ (navigator.deviceMemory # <<>> /\ navigator.hardwareConcurrency = <<>>) =>
              (conservativeMode = (navigator.deviceMemory[1] < 4))

\* C16 witness: a host that exposes no memory hint and many cores gets the
\* default profile.
C16_Witness ==
    /\ hs = "selected"
    /\ navigator.present
    /\ navigator.deviceMemory = <<>>
    /\ navigator.hardwareConcurrency = <<8>>
    /\ ~conservativeMode
    /\ limit = 2

(***************************************************************************)
(* FileUpload: handleSubmit, the per-item callback and the side task       *)
(***************************************************************************)
FileNames == <<"a.pdf", "b.pdf", "c.pdf", "d.pdf", "e.pdf">>
JobDescriptions == {"", " ", "Backend engineer"}
JobTitles == {"", "Engineer"}
Connections == {"true", "false", "null"}

\* jobDescription.trim()
Trim(str) == IF str = " " THEN "" ELSE str

Ops == {"processResume", "analyzeResumeMatch", "generateImprovements",
        "compareRequirements"}
LLMOps == {"analyzeResumeMatch", "generateImprovements", "compareRequirements"}

\* how an external call can end; a failure carries the backend's message,
\* the same for every failure of one run
Failures == {"unavailable", "out of memory"}
Outcomes == {"ok", failureMode}

\* the message of the error an operation throws when its call fails with f:
\* the OllamaService methods wrap it, api.processResume does not
ErrorOf(op, f) ==
    CASE op = "processResume"        -> <<f>>
      [] op = "analyzeResumeMatch"   -> <<"Failed to analyze resume: ", f>>
      [] op = "generateImprovements" -> <<"Failed to generate improvements: ", f>>
      [] op = "compareRequirements"  -> <<"Failed to compare requirements: ", f>>

\* err.message?.includes('out of memory') || err.message?.includes('OOM')
IsMemoryError(msg) == \E k \in 1..Len(msg) : msg[k] \in {"out of memory", "OOM"}

\* the catch block of the per-item callback: what it throws
CallbackCatch(file, msg) ==
    IF IsMemoryError(msg)
    THEN <<"Memory error processing ", file, ". Try processing fewer resumes at once.">>
    ELSE msg

\* what the backend stubs answer for a file, and the record built from it
Payload(op, file) == <<op, file>>
AnalysisResult(file) ==
    [match_analysis  |-> Payload("analyzeResumeMatch", file),
     improvements    |-> Payload("generateImprovements", file),
     comparisons     |-> Payload("compareRequirements", file),
     similar_resumes |-> Payload("processResume", file),
     filename        |-> file]

Undefined == [kind |-> "undefined"]
RankingResponse(fs) == [kind |-> "ranking", total_resumes |-> Len(fs)]

\* jobTitle || undefined
OrUndefined(str) == IF str = "" THEN Undefined ELSE [kind |-> "string", value |-> str]

\* A side task started without the .catch handler.
ProjectRankingPromiseNoCatch ==
    CASE rankCall = "none" -> [status |-> "fulfilled", value |-> Undefined]
      [] rankCall = "run"  -> [status |-> "pending", value |-> Undefined]
      [] rankCall = "ok"   -> [status |-> "fulfilled", value |-> RankingResponse(items)]
      [] rankCall = "err"  -> [status |-> "rejected", value |-> Undefined]

\* projectRankingPromise: Promise.resolve(undefined), or the rankProjects
\* call with its failure caught and turned into undefined
ProjectRankingPromise ==
    CASE rankCall = "none" -> [status |-> "fulfilled", value |-> Undefined]
      [] rankCall = "run"  -> [status |-> "pending", value |-> Undefined]
      [] rankCall = "ok"   -> [status |-> "fulfilled", value |-> RankingResponse(items)]
      [] rankCall = "err"  -> [status |-> "fulfilled", value |-> Undefined]

\* err.message || ... || 'Failed to analyze resumes. Please try again.'
ErrorText(msg) ==
    IF msg # <<>> THEN msg ELSE <<"Failed to analyze resumes. Please try again.">>

\* the hosts a form is submitted on: one that exposes no hint and one whose
\* memory hint is low (ProfileSpec covers every host)
SubmitNavigators ==
    {NoNavigator,
     [present |-> TRUE, deviceMemory |-> <<2>>, hardwareConcurrency |-> <<8>>]}

\* A side task that is started for every batch, also one of a single file.
MultipleFilesOrOne(fs) == Len(fs) >= 1

\* if (files.length > 1): the side task is started
MultipleFiles(fs) == Len(fs) > 1

\* A progress update without the + 1.
SetCurrentFileIndexArgZeroBased(i) == i - 1

\* setCurrentFileIndex(i + 1), i being the 0-based index the callback gets
SetCurrentFileIndexArg(i) == (i - 1) + 1

Init ==
    /\ \E n \in 0..MaxBatch : files = SubSeq(FileNames, 1, n)
    /\ jobDescription \in JobDescriptions
    /\ jobTitle \in JobTitles
    /\ ollamaConnected \in Connections
    /\ uploading = FALSE
    /\ error = <<>>
    /\ processingStep = <<>>
    /\ currentFileIndex = 0
    /\ totalFiles = 0
    /\ conservativeMode = FALSE
    /\ call = <<>>
    /\ rankCall = "none"
    /\ failureMode \in Failures
    /\ navigator \in SubmitNavigators
    /\ rankFiles = <<>>
    /\ firstRun = NoRun
    /\ invoked = NoInvocations
    /\ pair = NoPair
    /\ dragActive = FALSE
    /\ page = NoPage
    /\ hs = "idle"
    /\ uploads = <<>>
    /\ sem = NoSem
    /\ limit = 0
    /\ items = <<>>
    /\ pc = <<>>
    /\ ret = <<>>
    /\ arrivals = <<>>
    /\ grants = <<>>
    /\ settleOrder = <<>>
    /\ allState = NoPromiseAll

\* A handleSubmit that validates after setUploading(true).
InvalidAfterSetUploading(msg) ==
    /\ error' = msg
    /\ uploading' = TRUE
    /\ UNCHANGED <<semVars, files, jobDescription, jobTitle, ollamaConnected,
                   processingStep, currentFileIndex, totalFiles, conservativeMode, call,
                   rankCall, failureMode, navigator, rankFiles, invoked, pair, dragActive, page, hs, uploads>>

\* a validation failure of handleSubmit: setError and return
Invalid(msg) ==
    /\ error' = msg
    /\ UNCHANGED <<semVars, files, jobDescription, jobTitle, ollamaConnected, uploading,
                   processingStep, currentFileIndex, totalFiles, conservativeMode, call,
                   rankCall, failureMode, navigator, rankFiles, invoked, pair, dragActive, page, hs, uploads>>

\* handleSubmit from setUploading(true) to `await parallelLimit(...)`
StartRun(conservative) ==
    /\ uploading' = TRUE
    /\ error' = <<>>
    /\ totalFiles' = Len(files)
    /\ currentFileIndex' = 0
    /\ conservativeMode' = conservative
    /\ processingStep' =
          IF Len(files) > 1 THEN <<"Extracting projects">>
          ELSE IF conservative THEN <<"Initializing (memory-safe mode)">>
          ELSE <<"Initializing pipeline">>
    /\ rankCall' = IF MultipleFiles(files) THEN "run" ELSE "none"
    /\ rankFiles' = IF MultipleFiles(files) THEN files ELSE <<>>
    /\ invoked' = [calls |-> [i \in 1..Len(files) |-> [op \in Ops |-> 0]],
                   rankProjects |-> IF MultipleFiles(files) THEN 1 ELSE 0]
    /\ limit' = MaxConcurrentResumes(conservative)
    /\ items' = files
    /\ ParallelLimitCore(files, MaxConcurrentResumes(conservative))
    /\ call' = [i \in 1..Len(files) |-> [op \in Ops |-> "none"]]
    /\ hs' = "awaitMap"
    /\ UNCHANGED <<files, jobDescription, jobTitle, ollamaConnected, failureMode, navigator,
                   pair, dragActive, page, uploads>>

HandleSubmitCode ==
    /\ IF Len(files) = 0
       THEN Invalid(<<"Please select at least one resume file">>)
       ELSE IF Trim(jobDescription) = ""
       THEN Invalid(<<"Please enter a job description">>)
       ELSE IF ollamaConnected # "true"
       THEN Invalid(<<"Ollama is not running. Please start Ollama and refresh the page.">>)
       ELSE StartRun(ShouldUseConservativeMode(navigator.present, navigator.deviceMemory,
                                               navigator.hardwareConcurrency))

\* the form is submitted
HandleSubmit ==
    /\ hs = "idle"
    /\ HandleSubmitCode
    /\ UNCHANGED firstRun

\* Promise reactions run before the next task of the event loop: while a
\* continuation of execute() or of handleSubmit is ready to run, no network
\* response is delivered.
ReactionPending ==
    \/ \E i \in DOMAIN pc : pc[i] \in {"granted", "returned", "threw"}
    \/ hs = "awaitMap" /\ allState.status \in {"fulfilled", "rejected"}
    \/ hs = "awaitRank" /\ ProjectRankingPromise.status # "pending"

\* the callback throws: its promise, the fn() of execute(), rejects
Throws(i, msg) ==
    /\ pc' = [pc EXCEPT ![i] = "threw"]
    /\ ret' = [ret EXCEPT ![i] = Failure(CallbackCatch(items[i], msg))]

\* execute() resumes after acquire() and calls the callback, which runs up
\* to `await api.processResume(...)`.  The continuations of acquire() run in
\* the order in which acquire() resolved, which is the order of the items.
PipelineStart(i) ==
    /\ pc[i] = "granted"
    /\ \A j \in DOMAIN pc : j < i => pc[j] # "granted"
    /\ pc' = [pc EXCEPT ![i] = "running"]
    /\ currentFileIndex' = SetCurrentFileIndexArg(i)
    /\ processingStep' = <<"Parsing", items[i]>>
    /\ call' = [call EXCEPT ![i]["processResume"] = "run"]
    /\ invoked' = [invoked EXCEPT !.calls[i]["processResume"] = @ + 1]
    /\ UNCHANGED <<sem, limit, items, ret, arrivals, grants, settleOrder, allState,
                   files, jobDescription, jobTitle, ollamaConnected, uploading, error,
                   totalFiles, conservativeMode, rankCall, failureMode, navigator, rankFiles, firstRun, pair, dragActive, page, hs, uploads>>

\* A callback without its first await: analyzeResumeMatch is called whether
\* api.processResume succeeded or not.
ProcessResumeSettleIgnoresFailure(i, out) ==
    /\ call[i]["processResume"] = "run"
    /\ ~ReactionPending
    /\ call' = [call EXCEPT ![i]["processResume"] = IF out = "ok" THEN "ok" ELSE "err",
                            ![i]["analyzeResumeMatch"] = "run"]
    /\ invoked' = [invoked EXCEPT !.calls[i]["analyzeResumeMatch"] = @ + 1]
    /\ processingStep' = <<"Analyzing match", items[i]>>
    /\ UNCHANGED <<semVars, files, jobDescription, jobTitle, ollamaConnected, uploading, error,
                   currentFileIndex, totalFiles, conservativeMode, rankCall, failureMode,
                   navigator, rankFiles, firstRun, pair, dragActive, page, hs, uploads>>

\* api.processResume settles; on success analyzeResumeMatch is called
ProcessResumeSettle(i, out) ==
    /\ call[i]["processResume"] = "run"
    /\ ~ReactionPending
    /\ IF out = "ok"
       THEN /\ call' = [call EXCEPT ![i]["processResume"] = "ok",
                                    ![i]["analyzeResumeMatch"] = "run"]
            /\ invoked' = [invoked EXCEPT !.calls[i]["analyzeResumeMatch"] = @ + 1]
            /\ processingStep' = <<"Analyzing match", items[i]>>
            /\ UNCHANGED <<pc, ret>>
       ELSE /\ call' = [call EXCEPT ![i]["processResume"] = "err"]
            /\ Throws(i, ErrorOf("processResume", out))
            /\ UNCHANGED <<processingStep, invoked>>
    /\ UNCHANGED <<sem, limit, items, arrivals, grants, settleOrder, allState,
                   files, jobDescription, jobTitle, ollamaConnected, uploading, error,
                   currentFileIndex, totalFiles, conservativeMode, rankCall, failureMode, navigator, rankFiles, firstRun, pair, dragActive, page, hs, uploads>>

\* A callback that calls analyzeResumeMatch once more when it fails.
AnalyzeSettleRetries(i, out) ==
    /\ call[i]["analyzeResumeMatch"] = "run"
    /\ ~ReactionPending
    /\ IF out = "ok"
       THEN /\ call' = [call EXCEPT ![i]["analyzeResumeMatch"] = "ok",
                                    ![i]["generateImprovements"] = "run",
                                    ![i]["compareRequirements"] = "run"]
            /\ invoked' = [invoked EXCEPT !.calls[i]["generateImprovements"] = @ + 1,
                                          !.calls[i]["compareRequirements"] = @ + 1]
            /\ processingStep' = <<"Generating improvements & comparisons", items[i]>>
            /\ UNCHANGED <<pc, ret>>
       ELSE IF invoked.calls[i]["analyzeResumeMatch"] < 2
       THEN /\ invoked' = [invoked EXCEPT !.calls[i]["analyzeResumeMatch"] = @ + 1]
            /\ UNCHANGED <<call, pc, ret, processingStep>>
       ELSE /\ call' = [call EXCEPT ![i]["analyzeResumeMatch"] = "err"]
            /\ Throws(i, ErrorOf("analyzeResumeMatch", out))
            /\ UNCHANGED <<processingStep, invoked>>
    /\ UNCHANGED <<sem, limit, items, arrivals, grants, settleOrder, allState,
                   files, jobDescription, jobTitle, ollamaConnected, uploading, error,
                   currentFileIndex, totalFiles, conservativeMode, rankCall, failureMode,
                   navigator, rankFiles, firstRun, pair, dragActive, page, hs, uploads>>

\* analyzeResumeMatch settles; on success both enrichment calls are made
\* and joined by the inner Promise.all
AnalyzeSettle(i, out) ==
    /\ call[i]["analyzeResumeMatch"] = "run"
    /\ ~ReactionPending
    /\ IF out = "ok"
       THEN /\ call' = [call EXCEPT ![i]["analyzeResumeMatch"] = "ok",
                                    ![i]["generateImprovements"] = "run",
                                    ![i]["compareRequirements"] = "run"]
            /\ invoked' = [invoked EXCEPT !.calls[i]["generateImprovements"] = @ + 1,
                                          !.calls[i]["compareRequirements"] = @ + 1]
            /\ processingStep' = <<"Generating improvements & comparisons", items[i]>>
            /\ UNCHANGED <<pc, ret>>
       ELSE /\ call' = [call EXCEPT ![i]["analyzeResumeMatch"] = "err"]
            /\ Throws(i, ErrorOf("analyzeResumeMatch", out))
            /\ UNCHANGED <<processingStep, invoked>>
    /\ UNCHANGED <<sem, limit, items, arrivals, grants, settleOrder, allState,
                   files, jobDescription, jobTitle, ollamaConnected, uploading, error,
                   currentFileIndex, totalFiles, conservativeMode, rankCall, failureMode, navigator, rankFiles, firstRun, pair, dragActive, page, hs, uploads>>

\* A callback that joins the enrichment calls with the first one to succeed
\* and assembles the result then.
EnrichSettleFirstWins(i, op, out) ==
    /\ op \in {"generateImprovements", "compareRequirements"}
    /\ call[i][op] = "run"
    /\ ~ReactionPending
    /\ call' = [call EXCEPT ![i][op] = IF out = "ok" THEN "ok" ELSE "err"]
    /\ IF pc[i] # "running"
       THEN UNCHANGED <<pc, ret>>
       ELSE IF out # "ok"
       THEN Throws(i, ErrorOf(op, out))
       ELSE /\ pc' = [pc EXCEPT ![i] = "returned"]
            /\ ret' = [ret EXCEPT ![i] = Value(AnalysisResult(items[i]))]
    /\ UNCHANGED <<sem, limit, items, arrivals, grants, settleOrder, allState,
                   files, jobDescription, jobTitle, ollamaConnected, uploading, error,
                   processingStep, currentFileIndex, totalFiles, conservativeMode,
                   rankCall, failureMode, navigator, rankFiles, firstRun, invoked, pair, dragActive, page, hs, uploads>>

\* one of the two enrichment calls settles.  The inner Promise.all rejects
\* on the first failure, while the other call stays in flight; it fulfils
\* when both succeeded, and the callback returns the assembled result.
EnrichSettle(i, op, out) ==
    LET other == IF op = "generateImprovements" THEN "compareRequirements"
                 ELSE "generateImprovements"
    IN  /\ op \in {"generateImprovements", "compareRequirements"}
        /\ call[i][op] = "run"
        /\ ~ReactionPending
        /\ call' = [call EXCEPT ![i][op] = IF out = "ok" THEN "ok" ELSE "err"]
        /\ IF pc[i] # "running"
           THEN UNCHANGED <<pc, ret>>
           ELSE IF out # "ok"
           THEN Throws(i, ErrorOf(op, out))
           ELSE IF call[i][other] = "ok"
           THEN /\ pc' = [pc EXCEPT ![i] = "returned"]
                /\ ret' = [ret EXCEPT ![i] = Value(AnalysisResult(items[i]))]
           ELSE UNCHANGED <<pc, ret>>
        /\ UNCHANGED <<sem, limit, items, arrivals, grants, settleOrder, allState,
                       files, jobDescription, jobTitle, ollamaConnected, uploading, error,
                       processingStep, currentFileIndex, totalFiles, conservativeMode,
                       rankCall, failureMode, navigator, rankFiles, firstRun, invoked, pair, dragActive, page, hs, uploads>>

\* the finally block of execute() for item i, and Promise.all seeing the
\* promise of execute() settle
PipelineFinally(i) ==
    /\ ExecuteFinallyCore(i)
    /\ allState' = PromiseAllSettle(allState, i, ret[i])
    /\ UNCHANGED <<limit, items, ret, arrivals, settleOrder, uiVars>>

\* api.rankProjects settles
RankProjectsSettle(ok) ==
    /\ rankCall = "run"
    /\ ~ReactionPending
    /\ rankCall' = IF ok THEN "ok" ELSE "err"
    /\ UNCHANGED <<semVars, files, jobDescription, jobTitle, ollamaConnected, uploading,
                   error, processingStep, currentFileIndex, totalFiles, conservativeMode,
                   call, failureMode, navigator, rankFiles, firstRun, invoked, pair, dragActive, page, hs, uploads>>

\* the catch and finally blocks of handleSubmit
\* A handleSubmit whose catch block reports the error but which has no
\* finally block.
CatchWithoutFinally(msg) ==
    /\ error' = ErrorText(msg)
    /\ hs' = "done"
    /\ UNCHANGED <<uploading, processingStep, uploads>>

CatchFinally(msg) ==
    /\ error' = ErrorText(msg)
    /\ uploading' = FALSE
    /\ processingStep' = <<>>
    /\ hs' = "done"
    /\ UNCHANGED uploads

\* `await parallelLimit(...)` returns: handleSubmit runs on to
\* `await projectRankingPromise`
HandleSubmitMapped ==
    /\ hs = "awaitMap"
    /\ allState.status = "fulfilled"
    /\ processingStep' = IF Len(items) > 1 THEN <<"Ranking projects and experiences">>
                         ELSE processingStep
    /\ hs' = "awaitRank"
    /\ UNCHANGED <<semVars, files, jobDescription, jobTitle, ollamaConnected, uploading,
                   error, currentFileIndex, totalFiles, conservativeMode, call, rankCall,
                   failureMode, navigator, rankFiles, firstRun, invoked, pair, dragActive, page, uploads>>

\* `await parallelLimit(...)` throws: catch, finally
HandleSubmitFailed ==
    /\ hs = "awaitMap"
    /\ allState.status = "rejected"
    /\ CatchFinally(allState.reason.error)
    /\ UNCHANGED <<semVars, files, jobDescription, jobTitle, ollamaConnected,
                   currentFileIndex, totalFiles, conservativeMode, call, rankCall, failureMode, navigator, rankFiles, firstRun, invoked, pair, dragActive, page>>

\* `await projectRankingPromise` returns: onUploadSuccess, finally
HandleSubmitJoined ==
    /\ hs = "awaitRank"
    /\ ProjectRankingPromise.status # "pending"
    /\ IF ProjectRankingPromise.status = "rejected"
       THEN CatchFinally(<<"rankProjects failed">>)
       ELSE /\ uploads' = Append(uploads,
                            [results        |-> PromiseAllValues(allState),
                             projectRanking |-> ProjectRankingPromise.value,
                             files          |-> items,
                             jobTitle       |-> OrUndefined(jobTitle)])
            /\ error' = error
            /\ uploading' = FALSE
            /\ processingStep' = <<>>
            /\ hs' = "done"
    /\ UNCHANGED <<semVars, files, jobDescription, jobTitle, ollamaConnected,
                   currentFileIndex, totalFiles, conservativeMode, call, rankCall, failureMode, navigator, rankFiles, firstRun, invoked, pair, dragActive, page>>

Next ==
    \/ HandleSubmit
    \/ \E i \in DOMAIN pc : PipelineStart(i)
    \/ \E i \in DOMAIN pc, out \in Outcomes : ProcessResumeSettle(i, out)
    \/ \E i \in DOMAIN pc, out \in Outcomes : AnalyzeSettle(i, out)
    \/ \E i \in DOMAIN pc, op \in Ops, out \in Outcomes : EnrichSettle(i, op, out)
    \/ \E i \in DOMAIN pc : PipelineFinally(i)
    \/ \E ok \in BOOLEAN : RankProjectsSettle(ok)
    \/ HandleSubmitMapped
    \/ HandleSubmitFailed
    \/ HandleSubmitJoined

Spec == Init /\ [][Next]_vars

(***************************************************************************)
(* TwiceSpec: the same valid form submitted twice, the backends answering  *)
(* each call of the second run as they answered it in the first            *)
(***************************************************************************)
TwiceInit ==
    /\ \E n \in 1..MaxTwice : files = SubSeq(FileNames, 1, n)
    /\ jobDescription = "Backend engineer"
    /\ jobTitle = "Engineer"
    /\ ollamaConnected = "true"
    /\ uploading = FALSE
    /\ error = <<>>
    /\ processingStep = <<>>
    /\ currentFileIndex = 0
    /\ totalFiles = 0
    /\ conservativeMode = FALSE
    /\ call = <<>>
    /\ rankCall = "none"
    /\ failureMode \in Failures
    /\ navigator \in SubmitNavigators
    /\ rankFiles = <<>>
    /\ firstRun = NoRun
    /\ invoked = NoInvocations
    /\ pair = NoPair
    /\ dragActive = FALSE
    /\ page = NoPage
    /\ hs = "idle"
    /\ uploads = <<>>
    /\ sem = NoSem
    /\ limit = 0
    /\ items = <<>>
    /\ pc = <<>>
    /\ ret = <<>>
    /\ arrivals = <<>>
    /\ grants = <<>>
    /\ settleOrder = <<>>
    /\ allState = NoPromiseAll

\* handleSubmit has returned and every call it started has been answered
Quiescent ==
    /\ hs = "done"
    /\ \A i \in DOMAIN pc : pc[i] \in Settled
    /\ \A i \in DOMAIN call : \A op \in Ops : call[i][op] # "run"
    /\ rankCall # "run"

\* the answers the backend stub can give to call op of item i: any in the
\* first run, in the second run the one it gave in the first
StubAnswers(i, op) ==
    IF firstRun = NoRun THEN Outcomes
    ELSE IF firstRun.call[i][op] = "ok" THEN {"ok"}
    ELSE IF firstRun.call[i][op] = "err" THEN {failureMode}
    ELSE Outcomes

StubRankAnswers ==
    IF firstRun = NoRun \/ firstRun.rankCall = "none" THEN BOOLEAN
    ELSE {firstRun.rankCall = "ok"}

\* the form is submitted again once the first run is over
HandleSubmitAgain ==
    /\ firstRun = NoRun
    /\ Quiescent
    /\ firstRun' = [kind |-> "run", ret |-> ret, call |-> call, rankCall |-> rankCall,
                    error |-> error]
    /\ HandleSubmitCode

TwiceNext ==
    \/ HandleSubmit
    \/ HandleSubmitAgain
    \/ \E i \in DOMAIN pc : PipelineStart(i)
    \/ \E i \in DOMAIN pc : \E out \in StubAnswers(i, "processResume") :
          ProcessResumeSettle(i, out)
    \/ \E i \in DOMAIN pc : \E out \in StubAnswers(i, "analyzeResumeMatch") :
          AnalyzeSettle(i, out)
    \/ \E i \in DOMAIN pc, op \in Ops : \E out \in StubAnswers(i, op) :
          EnrichSettle(i, op, out)
    \/ \E i \in DOMAIN pc : PipelineFinally(i)
    \/ \E ok \in StubRankAnswers : RankProjectsSettle(ok)
    \/ HandleSubmitMapped
    \/ HandleSubmitFailed
    \/ HandleSubmitJoined

TwiceSpec == TwiceInit /\ [][TwiceNext]_vars

(***************************************************************************)
(* FormSpec: the file list of the form under drag, drop, file-select and   *)
(* remove operations.  A file is its name and its MIME type.               *)
(***************************************************************************)
PdfType == "application/pdf"

FormFiles ==
    {[name |-> "a.pdf", type |-> PdfType],
     [name |-> "b.pdf", type |-> PdfType],
     [name |-> "notes.txt", type |-> "text/plain"]}

\* the file lists a drop or a file dialog can deliver, the empty one included
FileLists == UNION {[1..n -> FormFiles] : n \in 0..MaxDrop}

IsPdf(file) == file.type = PdfType

\* A filter that lets every file through.
PdfFilesUnfiltered(list) == list

\* list.filter(file => file.type === 'application/pdf')
PdfFiles(list) == SelectSeq(list, IsPdf)

\* the body shared by handleDrop and handleFileChange: what files and error
\* are after a list has been offered
OfferFiles(fs, err, list) ==
    IF Len(list) > 0
    THEN LET pdfFiles == PdfFiles(list)
         IN  IF Len(pdfFiles) = 0
             THEN [files |-> fs, error |-> <<"Please upload PDF files only">>]
             ELSE IF Len(pdfFiles) > MaxFilesAtOnce
             THEN [files |-> fs, error |-> <<"Maximum 5 files allowed at once">>]
             ELSE [files |-> pdfFiles, error |-> <<>>]
    ELSE [files |-> fs, error |-> err]

\* files.filter((_, i) => i !== index), index counted from 1 here
WithoutIndex(fs, index) ==
    [k \in 1..(Len(fs) - 1) |-> IF k < index THEN fs[k] ELSE fs[k + 1]]

FormInit ==
    /\ files = <<>>
    /\ jobDescription = ""
    /\ jobTitle = ""
    /\ ollamaConnected = "null"
    /\ uploading = FALSE
    /\ error = <<>>
    /\ processingStep = <<>>
    /\ currentFileIndex = 0
    /\ totalFiles = 0
    /\ conservativeMode = FALSE
    /\ call = <<>>
    /\ rankCall = "none"
    /\ failureMode = "unavailable"
    /\ navigator = NoNavigator
    /\ rankFiles = <<>>
    /\ firstRun = NoRun
    /\ invoked = NoInvocations
    /\ pair = NoPair
    /\ dragActive = FALSE
    /\ page = NoPage
    /\ hs = "idle"
    /\ uploads = <<>>
    /\ sem = NoSem
    /\ limit = 0
    /\ items = <<>>
    /\ pc = <<>>
    /\ ret = <<>>
    /\ arrivals = <<>>
    /\ grants = <<>>
    /\ settleOrder = <<>>
    /\ allState = NoPromiseAll

FormUnchanged == UNCHANGED <<semVars, jobDescription, jobTitle, ollamaConnected, uploading,
                             processingStep, currentFileIndex, totalFiles, conservativeMode,
                             call, rankCall, failureMode, navigator, rankFiles, firstRun,
                             invoked, pair, page, hs, uploads>>

HandleDrag(type) ==
    /\ dragActive' = (IF type \in {"dragenter", "dragover"} THEN TRUE
                      ELSE IF type = "dragleave" THEN FALSE
                      ELSE dragActive)
    /\ UNCHANGED <<files, error>>
    /\ FormUnchanged

HandleDrop(dropped) ==
    /\ dragActive' = FALSE
    /\ files' = OfferFiles(files, error, dropped).files
    /\ error' = OfferFiles(files, error, dropped).error
    /\ FormUnchanged

HandleFileChange(selected) ==
    /\ files' = OfferFiles(files, error, selected).files
    /\ error' = OfferFiles(files, error, selected).error
    /\ UNCHANGED dragActive
    /\ FormUnchanged

RemoveFile(index) ==
    /\ files' = WithoutIndex(files, index)
    /\ UNCHANGED <<error, dragActive>>
    /\ FormUnchanged

FormNext ==
    \/ \E type \in {"dragenter", "dragover", "dragleave"} : HandleDrag(type)
    \/ \E dropped \in FileLists : HandleDrop(dropped)
    \/ \E selected \in FileLists : HandleFileChange(selected)
    \/ \E index \in DOMAIN files : RemoveFile(index)

FormSpec == FormInit /\ [][FormNext]_vars

\* the number of PDF files in a list
CountPdf(list) == Cardinality({k \in DOMAIN list : list[k].type = PdfType})

Null == [kind |-> "null"]
DefaultJobTitle == "Software Engineer"

\* what a successful handleSubmit run passes to onUploadSuccess: one result
\* per file; a ranking only for more than one file, and not when
\* rankProjects failed; the job title of the form, or undefined
UploadArgs ==
    {[results        |-> [i \in 1..n |-> AnalysisResult(FileNames[i])],
      projectRanking |-> r,
      files          |-> SubSeq(FileNames, 1, n),
      jobTitle       |-> OrUndefined(t)] :
        n \in 1..MaxPageFiles,
        r \in {Undefined} \cup {RankingResponse(SubSeq(FileNames, 1, k)) : k \in 1..MaxPageFiles},
        t \in JobTitles}

DeliverableArgs ==
    {a \in UploadArgs :
        a.projectRanking # Undefined =>
            (Len(a.files) > 1 /\ a.projectRanking = RankingResponse(a.files))}

PageInit ==
    /\ page = [kind                |-> "home",
               results             |-> <<>>,
               selectedResultIndex |-> 0,
               projectRanking      |-> Null,
               showProjects        |-> FALSE,
               uploadedFiles       |-> <<>>,
               jobTitle            |-> DefaultJobTitle]
    /\ uploads = <<>>
    /\ files = <<>>
    /\ jobDescription = ""
    /\ jobTitle = ""
    /\ ollamaConnected = "null"
    /\ uploading = FALSE
    /\ error = <<>>
    /\ processingStep = <<>>
    /\ currentFileIndex = 0
    /\ totalFiles = 0
    /\ conservativeMode = FALSE
    /\ call = <<>>
    /\ rankCall = "none"
    /\ failureMode = "unavailable"
    /\ navigator = NoNavigator
    /\ rankFiles = <<>>
    /\ firstRun = NoRun
    /\ invoked = NoInvocations
    /\ pair = NoPair
    /\ dragActive = FALSE
    /\ hs = "idle"
    /\ sem = NoSem
    /\ limit = 0
    /\ items = <<>>
    /\ pc = <<>>
    /\ ret = <<>>
    /\ arrivals = <<>>
    /\ grants = <<>>
    /\ settleOrder = <<>>
    /\ allState = NoPromiseAll

PageUnchanged == UNCHANGED <<semVars, files, jobDescription, jobTitle, ollamaConnected,
                             uploading, error, processingStep, currentFileIndex, totalFiles,
                             conservativeMode, call, rankCall, failureMode, navigator,
                             rankFiles, firstRun, invoked, pair, dragActive, hs>>

\* onUploadSuccess(results, projectRankingResult, files, jobTitle || undefined)
HandleUploadSuccess(args) ==
    /\ page.results = <<>>
    /\ Len(uploads) < MaxUploads
    /\ page' = [page EXCEPT
                  !.results = args.results,
                  !.selectedResultIndex = 0,
                  !.projectRanking = IF args.projectRanking # Undefined
                                     THEN args.projectRanking ELSE @,
                  !.uploadedFiles = args.files,
                  !.jobTitle = IF args.jobTitle # Undefined THEN args.jobTitle.value ELSE @]
    /\ uploads' = Append(uploads, args)
    /\ PageUnchanged

\* A handleReset that leaves the view as it is.
HandleResetKeepsView ==
    /\ page.results # <<>>
    /\ page' = [page EXCEPT !.results = <<>>,
                            !.selectedResultIndex = 0,
                            !.projectRanking = Null]
    /\ UNCHANGED uploads
    /\ PageUnchanged

\* the button "Analyze More Resumes"
HandleReset ==
    /\ page.results # <<>>
    /\ page' = [page EXCEPT !.results = <<>>,
                            !.selectedResultIndex = 0,
                            !.projectRanking = Null,
                            !.showProjects = FALSE]
    /\ UNCHANGED uploads
    /\ PageUnchanged

\* the buttons "Individual Resumes" / "Best Projects", rendered when
\* projectRanking && results.length > 1
SetShowProjects(show) ==
    /\ page.results # <<>>
    /\ page.projectRanking # Null
    /\ Len(page.results) > 1
    /\ page' = [page EXCEPT !.showProjects = show]
    /\ UNCHANGED uploads
    /\ PageUnchanged

\* a button of the resume selector, rendered in the individual view when
\* results.length > 1; index is the 0-based index of results.map
SetSelectedResultIndex(index) ==
    /\ page.results # <<>>
    /\ ~page.showProjects
    /\ Len(page.results) > 1
    /\ index \in 0..(Len(page.results) - 1)
    /\ page' = [page EXCEPT !.selectedResultIndex = index]
    /\ UNCHANGED uploads
    /\ PageUnchanged

PageNext ==
    \/ \E args \in DeliverableArgs : HandleUploadSuccess(args)
    \/ HandleReset
    \/ \E show \in BOOLEAN : SetShowProjects(show)
    \/ \E index \in 0..(MaxPageFiles - 1) : SetSelectedResultIndex(index)

PageSpec == PageInit /\ [][PageNext]_vars

\* the arguments of the latest call of handleUploadSuccess
LatestUpload == uploads[Len(uploads)]

\* C34: after handleReset and a new successful upload, what the page holds
\* of a run (results, projectRanking, uploadedFiles, jobTitle) comes from the
\* latest run only: a run that supplied no ranking leaves the page without
\* one, and a run that supplied no job title leaves the page with the
\* default title, not with the title of an earlier run.
C34_StateFromLatestRunOnly ==
    (Len(uploads) >= 2 /\ page.results # <<>>) =>
        /\ page.results = LatestUpload.results
        /\ page.uploadedFiles = LatestUpload.files
        /\ page.projectRanking =
              (IF LatestUpload.projectRanking = Undefined THEN Null
               ELSE LatestUpload.projectRanking)
        /\ page.jobTitle =
              (IF LatestUpload.jobTitle = Undefined THEN DefaultJobTitle
               ELSE LatestUpload.jobTitle.value)

\* C35: whenever results is non-empty selectedResultIndex is one of its
\* indices, and the Best Projects view is active only while a project
\* ranking is present and there is more than one result.
C35_ViewStateValid ==
    /\ page.results # <<>> =>
          page.selectedResultIndex \in 0..(Len(page.results) - 1)
    /\ page.showProjects =>
          (page.projectRanking # Null /\ Len(page.results) > 1)

\* C35 witness: after a reset, a second run of three files with a ranking
\* is shown in the Best Projects view, the last resume having been selected
C35_Witness ==
    /\ Len(uploads) = 2
    /\ Len(page.results) = 3
    /\ page.selectedResultIndex = 2
    /\ page.showProjects

(***************************************************************************)
(* LiveSpec: a valid form is submitted, on a host of either profile; every *)
(* external call made is eventually answered and the event loop runs every *)
(* reaction that is ready                                                  *)
(***************************************************************************)
LiveInit ==
    /\ \E n \in 1..MaxLive : files = SubSeq(FileNames, 1, n)
    /\ jobDescription = "Backend engineer"
    /\ jobTitle = "Engineer"
    /\ ollamaConnected = "true"
    /\ uploading = FALSE
    /\ error = <<>>
    /\ processingStep = <<>>
    /\ currentFileIndex = 0
    /\ totalFiles = 0
    /\ conservativeMode = FALSE
    /\ call = <<>>
    /\ rankCall = "none"
    /\ failureMode = "unavailable"
    /\ navigator \in SubmitNavigators
    /\ rankFiles = <<>>
    /\ firstRun = NoRun
    /\ invoked = NoInvocations
    /\ pair = NoPair
    /\ dragActive = FALSE
    /\ page = NoPage
    /\ hs = "idle"
    /\ uploads = <<>>
    /\ sem = NoSem
    /\ limit = 0
    /\ items = <<>>
    /\ pc = <<>>
    /\ ret = <<>>
    /\ arrivals = <<>>
    /\ grants = <<>>
    /\ settleOrder = <<>>
    /\ allState = NoPromiseAll

\* the steps that do not wait for the user: answers of the backend and of
\* the LLM, and the reactions of the event loop
RunStep ==
    \/ \E i \in DOMAIN pc : PipelineStart(i)
    \/ \E i \in DOMAIN pc, out \in Outcomes : ProcessResumeSettle(i, out)
    \/ \E i \in DOMAIN pc, out \in Outcomes : AnalyzeSettle(i, out)
    \/ \E i \in DOMAIN pc, op \in Ops, out \in Outcomes : EnrichSettle(i, op, out)
    \/ \E i \in DOMAIN pc : PipelineFinally(i)
    \/ \E ok \in BOOLEAN : RankProjectsSettle(ok)
    \/ HandleSubmitMapped
    \/ HandleSubmitFailed
    \/ HandleSubmitJoined

LiveSpec == LiveInit /\ [][Next]_vars /\ WF_vars(RunStep)

\* the LLM calls in flight: the three OllamaService calls of every item,
\* plus the rankProjects side task
LLMCallsInFlight ==
    Cardinality({<<i, op>> \in (DOMAIN call) \X LLMOps : call[i][op] = "run"})
        + (IF rankCall = "run" THEN 1 ELSE 0)

\* C2: the number of LLM calls executing at the same time, over all item
\* pipelines and the side task, never exceeds MAX_LLM_CALLS.
C2_LLMCallsWithinBudget == LLMCallsInFlight <= MAX_LLM_CALLS

\* C3: the number of callback invocations started and not yet settled never
\* exceeds the limit given to parallelLimit, which is 1 in conservative mode
\* and MAX_RESUME_PROCESSING otherwise.
C3_InFlightWithinLimit ==
    hs # "idle" =>
        /\ limit = (IF conservativeMode THEN 1 ELSE MAX_RESUME_PROCESSING)
        /\ Cardinality(InFlight) <= limit

\* C3 witness: outside conservative mode two pipelines are in flight, a
\* third item waits in the queue.
C3_Witness ==
    /\ ~conservativeMode
    /\ Cardinality(InFlight) = MAX_RESUME_PROCESSING
    /\ sem.tasks # <<>>

\* C4: when exactly one item's pipeline of a batch of two or more failed
\* and all others succeeded, the finished run has delivered one outcome per item, in input order, the
\* successful ones being the items' results.
C4_FailureIsolated ==
    (/\ hs = "done"
     /\ Len(items) >= 2
     /\ \A i \in DOMAIN pc : pc[i] \in Settled
     /\ Cardinality({i \in DOMAIN pc : pc[i] = "rejected"}) = 1) =>
        /\ Len(uploads) = 1
        /\ Len(uploads[1].results) = Len(items)
        /\ \A i \in DOMAIN pc :
              pc[i] = "fulfilled" => uploads[1].results[i] = AnalysisResult(items[i])

\* C9: a failed rankProjects call alone never makes the run report an
\* error, and a finished run whose items all succeeded has delivered the
\* complete list of results in input order through onUploadSuccess.
C9_SideTaskFailureTolerated ==
    /\ (/\ hs # "idle"
        /\ rankCall = "err"
        /\ \A i \in DOMAIN pc : pc[i] \notin {"threw", "rejected"}) => error = <<>>
    /\ (/\ hs = "done"
        /\ rankCall = "err"
        /\ \A i \in DOMAIN pc : pc[i] = "fulfilled") =>
            /\ Len(uploads) = 1
            /\ uploads[1].results = [i \in 1..Len(items) |-> AnalysisResult(items[i])]

\* C9 witness: the side task failed while item pipelines were still
\* running, and the run finished by delivering the results of all items.
C9_Witness ==
    /\ hs = "done"
    /\ rankCall = "err"
    /\ Len(items) >= 2
    /\ Len(uploads) = 1
    /\ Len(uploads[1].results) = Len(items)
    /\ error = <<>>

\* C10: the delivered result of a run whose side task failed records the
\* failure: its side-task field differs from the one a run without side
\* task delivers (undefined).
C10_SideTaskFailureRecorded ==
    (hs = "done" /\ rankCall = "err" /\ Len(uploads) = 1) =>
        uploads[1].projectRanking # Undefined

\* C11: a run never returns while the side task it started is still
\* pending: handleSubmit has joined rankProjects when it finishes.
C11_SideTaskJoined == hs = "done" => rankCall # "run"

\* C12: the side task is started if and only if the batch has more than one
\* item; it is given the full list of items; and the step that starts it
\* leaves it pending while handleSubmit goes on to parallelLimit, no stage
\* of any item's pipeline having begun.
C12_SideTaskStartedFirst ==
    /\ [](hs # "idle" =>
            /\ (rankCall # "none") = (Len(items) > 1)
            /\ rankCall # "none" => rankFiles = items)
    /\ []((\E i \in DOMAIN pc : pc[i] \notin {"idle", "waiting", "granted"}) =>
            (Len(items) > 1 => rankCall # "none"))
    /\ [][(rankCall = "none" /\ rankCall' # "none") =>
            /\ rankCall' = "run"
            /\ hs' = "awaitMap"
            /\ \A i \in DOMAIN pc' : pc'[i] \in {"waiting", "granted"}
            /\ \A i \in DOMAIN call' : \A op \in Ops : call'[i][op] = "none"]_vars

\* C12 witness: the side task, given all three files, is still pending
\* while an item's pipeline is past its first stage.
C12_Witness ==
    /\ Len(items) = 3
    /\ rankFiles = items
    /\ rankCall = "run"
    /\ \E i \in DOMAIN pc : call[i]["analyzeResumeMatch"] = "run"

\* C13: during a run the values of currentFileIndex never decrease and never
\* exceed totalFiles, the number of items; a run in which all items
\* succeeded ends with currentFileIndex = totalFiles.
C13_ProgressMonotone ==
    /\ [](hs # "idle" => (totalFiles = Len(items) /\ currentFileIndex <= totalFiles))
    /\ [][hs # "idle" => currentFileIndex' >= currentFileIndex]_vars
    /\ []((hs = "done" /\ \A i \in DOMAIN pc : pc[i] = "fulfilled") =>
            currentFileIndex = totalFiles)

\* C13 witness: a finished run of three files at ceiling 2, all succeeded,
\* the third having waited for a permit.
C13_Witness ==
    /\ hs = "done"
    /\ limit = 2
    /\ Len(items) = 3
    /\ grants # <<>>
    /\ \A i \in DOMAIN pc : pc[i] = "fulfilled"
    /\ currentFileIndex = 3

\* the items whose callback has finished, by returning or by throwing
Finished == {i \in DOMAIN pc : pc[i] \in {"returned", "threw", "fulfilled", "rejected"}}

\* C14: the count shown as "k of N resumes processed", currentFileIndex
\* when the progress bar is rendered, is at most the number of items whose
\* pipeline has finished.
C14_ProgressAfterCompletion ==
    (totalFiles > 1 /\ currentFileIndex > 0) => currentFileIndex <= Cardinality(Finished)

\* C18: within one item's pipeline analyzeResumeMatch is called only after
\* processResume succeeded; generateImprovements and compareRequirements
\* are called only after analyzeResumeMatch succeeded, both in the same
\* step, before either is awaited; and the item's result is assembled only
\* after both have succeeded.
C18_StagesInOrder ==
    /\ [](\A i \in DOMAIN call :
            /\ call[i]["analyzeResumeMatch"] # "none" => call[i]["processResume"] = "ok"
            /\ (\/ call[i]["generateImprovements"] # "none"
                \/ call[i]["compareRequirements"] # "none") =>
                   /\ call[i]["analyzeResumeMatch"] = "ok"
                   /\ call[i]["generateImprovements"] # "none"
                   /\ call[i]["compareRequirements"] # "none"
            /\ ret[i].kind = "value" =>
                   /\ call[i]["generateImprovements"] = "ok"
                   /\ call[i]["compareRequirements"] = "ok"
                   /\ ret[i] = Value(AnalysisResult(items[i])))
    /\ [][\A i \in DOMAIN call :
            (\E op \in {"generateImprovements", "compareRequirements"} :
                call[i][op] = "none" /\ call'[i][op] # "none") =>
                   /\ call[i]["generateImprovements"] = "none"
                   /\ call[i]["compareRequirements"] = "none"
                   /\ call'[i]["generateImprovements"] = "run"
                   /\ call'[i]["compareRequirements"] = "run"]_vars

\* C18 witness: an item's callback has returned its assembled result, the
\* compareRequirements call of another item being still in flight next to
\* its finished generateImprovements call.
C18_Witness ==
    \E i, j \in DOMAIN pc :
        /\ i # j
        /\ pc[i] = "returned"
        /\ ret[i] = Value(AnalysisResult(items[i]))
        /\ call[j]["generateImprovements"] = "ok"
        /\ call[j]["compareRequirements"] = "run"

\* the calls of item i's pipeline that failed
FailedCalls(i) == {op \in Ops : call[i][op] = "err"}

\* C19: a failed stage starts no later stage for its item (no LLM call
\* after a failed processResume, no enrichment call after a failed
\* analyzeResumeMatch, no assembled result after a failed enrichment call),
\* and it leaves the other items alone: the step in which a call of one
\* item fails changes nothing of any other item, and an item's callback
\* throws only when a call of its own has failed.
C19_FailureShortCircuits ==
    /\ [](\A i \in DOMAIN call :
            /\ call[i]["processResume"] = "err" =>
                   \A op \in LLMOps : call[i][op] = "none"
            /\ call[i]["analyzeResumeMatch"] = "err" =>
                   /\ call[i]["generateImprovements"] = "none"
                   /\ call[i]["compareRequirements"] = "none"
            /\ FailedCalls(i) # {} => ret[i].kind = "error"
            /\ ret[i].kind = "error" => FailedCalls(i) # {})
    /\ [][\A i \in DOMAIN call :
            (\E op \in Ops : call[i][op] # "err" /\ call'[i][op] = "err") =>
                \A j \in DOMAIN call \ {i} :
                    call'[j] = call[j] /\ pc'[j] = pc[j] /\ ret'[j] = ret[j]]_vars

\* C19 witness: at ceiling 1 the first item failed in processResume and
\* made no LLM call, and the second item, started afterwards, ran all its
\* stages and succeeded.
C19_Witness ==
    /\ limit = 1
    /\ Len(items) >= 2
    /\ call[1]["processResume"] = "err"
    /\ pc[1] = "rejected"
    /\ \A op \in Ops : call[2][op] = "ok"
    /\ pc[2] = "fulfilled"

\* C20: the same batch run twice against a backend stub that gives each
\* call the same answer both times yields the same per-item outcomes, in
\* the same order, whatever the order of the answers in either run: each
\* item settles as it did in the first run, and a second delivery carries
\* the same results as the first.
C20_SameOutcomesTwice ==
    (firstRun # NoRun /\ Quiescent) =>
        /\ ret = firstRun.ret
        /\ Len(uploads) # 1
        /\ Len(uploads) = 2 => uploads[2].results = uploads[1].results

\* C21: the pipeline does not retry. Within one run processResume,
\* analyzeResumeMatch, generateImprovements and compareRequirements are each
\* invoked at most once per item and rankProjects at most once per run, also
\* once a call has failed.
C21_NoRetry ==
    /\ invoked.rankProjects <= 1
    /\ \A i \in DOMAIN invoked.calls : \A op \in Ops : invoked.calls[i][op] <= 1

\* a run is over in which analyzeResumeMatch failed for one item and the
\* ranking request failed as well
C21_Witness ==
    /\ hs = "done"
    /\ rankCall = "err"
    /\ invoked.rankProjects = 1
    /\ \E i \in DOMAIN call :
          /\ call[i]["analyzeResumeMatch"] = "err"
          /\ invoked.calls[i]["analyzeResumeMatch"] = 1
          /\ invoked.calls[i]["processResume"] = 1

\* the text an OllamaService method puts in front of the error it rethrows;
\* api.processResume puts none
StagePrefix(op) == ErrorOf(op, "")[1]

\* C22: when a stage of an item's pipeline fails, the failure propagated
\* for the item carries the name of the stage that failed, whichever stage
\* it was (processResume, analyzeResumeMatch, either enrichment call).
C22_FailureNamesStage ==
    \A i \in DOMAIN call :
        ret[i].kind = "error" =>
            \E op \in FailedCalls(i) :
                /\ op \in LLMOps
                /\ \E k \in 1..Len(ret[i].error) : ret[i].error[k] = StagePrefix(op)

\* C28: in conservative mode processing is sequential. The ceiling is 1, at
\* most one item holds the permit, and the pipeline of item i+1 is admitted
\* and starts its first stage only after the execute() call of item i has
\* settled: one item at a time, in input order.
C28_ConservativeSequential ==
    (hs # "idle" /\ conservativeMode) =>
        /\ limit = 1
        /\ Cardinality(Holders) <= 1
        /\ \A i \in DOMAIN pc :
              (i > 1 /\ (pc[i] # "waiting" \/ call[i]["processResume"] # "none")) =>
                  pc[i - 1] \in Settled

\* C28 witness: three files in conservative mode; the first has settled, the
\* second is being parsed, the third is queued
C28_Witness ==
    /\ conservativeMode
    /\ Len(items) = 3
    /\ pc[1] \in Settled
    /\ pc[2] = "running"
    /\ call[2]["processResume"] = "run"
    /\ pc[3] = "waiting"

\* handleSubmit has reported the failure of the batch
BatchFailureReported ==
    /\ hs = "done"
    /\ allState.status = "rejected"
    /\ error # <<>>
    /\ ~uploading

\* C29 as stated: once handleSubmit has reported a batch failure, no
\* further per-item pipeline stage of the run is started (items still queued
\* then are not processed).
C29_NoStageAfterFailure ==
    [][BatchFailureReported =>
          \A i \in DOMAIN call : \A op \in Ops :
              call[i][op] = "none" => call'[i][op] = "none"]_vars

\* C29, amended: once handleSubmit has reported a batch failure the report
\* stands (the error shown is that of the first item that failed, uploading
\* is false, nothing is delivered), whatever the rest of the run does; the
\* run itself is not cancelled: an item stays queued only while another item
\* holds a permit, which its finally block will hand over.
C29_FailureReportStands ==
    BatchFailureReported =>
        /\ error = ErrorText(allState.reason.error)
        /\ uploads = <<>>
        /\ sem.tasks # <<>> => Holders # {}
        /\ \A i \in DOMAIN pc :
              pc[i] = "waiting" => \A op \in Ops : call[i][op] = "none"

\* C29 witness: the failure of the batch has been reported, and an item that
\* had been queued is now in its analysis stage while the last one waits
C29_Witness ==
    /\ BatchFailureReported
    /\ Len(items) = 3
    /\ pc[1] = "rejected"
    /\ 2 \in Range(grants)
    /\ call[2]["analyzeResumeMatch"] = "run"
    /\ pc[3] = "waiting"

\* C30: when every external call is eventually answered, a run that has
\* started eventually reaches the state in which every item has been
\* admitted and its execute() call has settled (no item is left queued in
\* the gate), parallelLimit has settled, and handleSubmit has finished with
\* uploading = false: no run gets stuck, at ceiling 1 or 2.
C30_RunTerminates ==
    (hs # "idle") ~>
        (/\ hs = "done"
         /\ ~uploading
         /\ allState.status \in {"fulfilled", "rejected"}
         /\ \A i \in DOMAIN pc : pc[i] \in Settled)

\* C30 witness: a run of three files at ceiling 2 is over, every execute()
\* call has settled, the third item having waited for its permit
C30_Witness ==
    /\ hs = "done"
    /\ ~uploading
    /\ limit = 2
    /\ Len(items) = 3
    /\ arrivals = <<3>>
    /\ grants = <<3>>
    /\ \A i \in DOMAIN pc : pc[i] \in Settled

\* C31: a handleSubmit run that passed validation has uploading = true and
\* has neither delivered nor reported anything until it ends; it ends in
\* exactly one of two ways, onUploadSuccess called once with the results
\* and no error set, or an error message set and onUploadSuccess not called;
\* the step that ends it resets uploading and clears processingStep.
C31_OneOutcomePerRun ==
    /\ [](hs \in {"awaitMap", "awaitRank"} =>
            (uploading /\ uploads = <<>> /\ error = <<>>))
    /\ [](hs = "done" =>
            /\ ~uploading
            /\ \/ (Len(uploads) = 1 /\ error = <<>>
                    /\ uploads[1].results = PromiseAllValues(allState))
               \/ (uploads = <<>> /\ error # <<>>))
    /\ [][(hs # "done" /\ hs' = "done") =>
            (~uploading' /\ processingStep' = <<>>)]_vars
    /\ [][hs = "done" => (uploads' = uploads /\ error' = error /\ hs' = hs)]_vars

\* C31 witness: a run of two files has ended with an error message, nothing
\* delivered, uploading reset and the step text cleared
C31_Witness ==
    /\ hs = "done"
    /\ Len(items) = 2
    /\ error # <<>>
    /\ uploads = <<>>
    /\ ~uploading
    /\ processingStep = <<>>

\* the form does not pass the validation of handleSubmit
FormInvalid ==
    \/ Len(files) = 0
    \/ Trim(jobDescription) = ""
    \/ ollamaConnected # "true"

\* C32: an invalid submission (no files, a blank job description, Ollama
\* not connected) is rejected without side effects: the step sets an error
\* message, and nothing else ever happens: no side task, no item pipeline,
\* no Semaphore, uploading false, the progress counters as they were.
C32_InvalidSubmissionRejected ==
    /\ [](FormInvalid =>
            /\ hs = "idle"
            /\ ~uploading
            /\ rankCall = "none" /\ rankFiles = <<>>
            /\ call = <<>> /\ pc = <<>> /\ sem = NoSem
            /\ invoked = NoInvocations
            /\ currentFileIndex = 0 /\ totalFiles = 0
            /\ processingStep = <<>>
            /\ uploads = <<>>)
    /\ [][FormInvalid => error' # <<>>]_vars

\* C32 witness: files are selected and Ollama is connected, but the job
\* description is blank, and the submission has been answered with the
\* message
C32_Witness ==
    /\ Len(files) = 2
    /\ jobDescription = " "
    /\ ollamaConnected = "true"
    /\ error = <<"Please enter a job description">>
    /\ hs = "idle"

====
